---- MODULE Spec2Model ----
(***************************************************************************)
(* finance_api: a FastAPI service over three SQLAlchemy tables (users,     *)
(* categories, transactions).  The tables are sequences of rows in storage *)
(* (rowid) order; every crud.py function is an operator over the tables,   *)
(* every route of main.py is an action.                                    *)
(***************************************************************************)
EXTENDS Integers, Sequences, FiniteSets, TLC

\* ------------------------------------------------------------- bounds
MaxUsers == 2
MaxCat == 2
MaxTx == 2
MaxSpend == 1
MaxReqs == 2

\* ------------------------------------------------------- input values
Emails == {"a@x", "b@x"}
Passwords == {"p", "q"}
Titles == {"Coffee", "Rent"}
Amounts == {1, 2}
Types == {"income", "expense"}
Names == {"food", "home"}
UserIds == 1..MaxUsers
CategoryIds == 1..MaxCat

VARIABLES users, categories, transactions, reqs, last

vars == <<users, categories, transactions, reqs, last>>

\* ------------------------------------------------------------ helpers
\* Python's None: what Query.first() gives when no row matches.
None == [id |-> 0]

NoReq == [op |-> "none"]

Min(a, b) == IF a < b THEN a ELSE b

Max(a, b) == IF a > b THEN a ELSE b

Range(s) == {s[i] : i \in DOMAIN s}

RECURSIVE MaxId(_)
MaxId(table) == IF table = <<>> THEN 0 ELSE Max(Head(table).id, MaxId(Tail(table)))

\* Integer primary key of a new row: one past the largest id in the table.
NextId(table) == MaxId(table) + 1

\* Query.first()
First(rows) == IF rows = <<>> THEN None ELSE Head(rows)

\* Query.offset(skip).limit(limit).all()
OffsetLimit(rows, skip, limit) == SubSeq(rows, skip + 1, Min(Len(rows), skip + limit))

\* db.delete(row); db.commit()
DeleteRow(table, id) == SelectSeq(table, LAMBDA r : r.id # id)

\* --------------------------------------------------------------- auth
\* auth.get_password_hash, auth.verify_password, auth.create_access_token, by
\* their contracts: a one-way digest, its verification, a token carrying the
\* subject.
get_password_hash(password) == <<"hash", password>>

verify_password(plain_password, hashed_password) == hashed_password = get_password_hash(plain_password)

create_access_token(data) == <<"jwt", data.sub>>

\* ------------------------------------------------------------ crud.py
get_user_by_email(db_users, email) == First(SelectSeq(db_users, LAMBDA u : u.email = email))

\* users.email is declared unique=True: the INSERT of a second row with the
\* same email raises IntegrityError.
UniqueIndexMissing(db_users, email) == TRUE

UniqueIndexAllows(db_users, email) == \A i \in DOMAIN db_users : db_users[i].email # email

create_user(db_users, user, hashed_password) ==
    LET db_user == [id |-> NextId(db_users), email |-> user.email,
                    hashed_password |-> hashed_password]
    IN  [table |-> Append(db_users, db_user), result |-> db_user]

\* ------------------------------------------------- schemas.py, crud.py
\* TransactionCreate: the four declared fields of the request body; pydantic
\* drops every other key of the body.
TransactionCreateKeepingAllKeys(body) == body

TransactionCreate(body) ==
    [k \in {"title", "amount", "type", "category_id"} |-> body[k]]

\* CategoryCreate: the one declared field of the request body.
CategoryCreate(body) == [name |-> body.name]

OwnedBy(table, user_id) == SelectSeq(table, LAMBDA r : r.owner_id = user_id)

get_transactions_unscoped(db_txs, user_id, skip, limit) == OffsetLimit(db_txs, skip, limit)

get_transactions(db_txs, user_id, skip, limit) == OffsetLimit(OwnedBy(db_txs, user_id), skip, limit)

\* models.Transaction(**transaction.dict(), owner_id=user_id)
NewTransaction(transaction, user_id, id) ==
    [id |-> id, title |-> transaction.title, amount |-> transaction.amount,
     type |-> transaction.type, category_id |-> transaction.category_id,
     owner_id |-> user_id]

create_transaction(db_txs, transaction, user_id) ==
    LET db_transaction == NewTransaction(transaction, user_id, NextId(db_txs))
    IN  [table |-> Append(db_txs, db_transaction), result |-> db_transaction]

get_transaction_by_id_only(db_txs, transaction_id, user_id) ==
    First(SelectSeq(db_txs, LAMBDA t : t.id = transaction_id))

get_transaction(db_txs, transaction_id, user_id) ==
    First(SelectSeq(db_txs, LAMBDA t : t.id = transaction_id /\ t.owner_id = user_id))

\* for key, value in transaction.dict().items(): setattr(db_transaction, key,
\* value): the object in the session after the loop.
AssignedButAmount(loaded, transaction) ==
    [k \in DOMAIN loaded |->
        IF k \in DOMAIN transaction /\ k # "amount" THEN transaction[k] ELSE loaded[k]]

Assigned(loaded, transaction) ==
    [k \in DOMAIN loaded |-> IF k \in DOMAIN transaction THEN transaction[k] ELSE loaded[k]]

\* db.commit() after the setattr loop: the session flushes one UPDATE of the
\* row with the loaded id, setting the columns whose assigned value differs
\* from the value the session loaded; the other columns are not written.
Flush(db_txs, loaded, assigned) ==
    [i \in DOMAIN db_txs |->
        IF db_txs[i].id # loaded.id THEN db_txs[i]
        ELSE [k \in DOMAIN db_txs[i] |->
                IF assigned[k] # loaded[k] THEN assigned[k] ELSE db_txs[i][k]]]

update_transaction(db_txs, transaction_id, transaction, user_id) ==
    LET db_transaction == get_transaction(db_txs, transaction_id, user_id)
    IN  IF db_transaction = None THEN [table |-> db_txs, result |-> None]
        ELSE LET table == Flush(db_txs, db_transaction, Assigned(db_transaction, transaction))
             IN  [table |-> table,
                  result |-> get_transaction(table, transaction_id, user_id)]

delete_transaction(db_txs, transaction_id, user_id) ==
    LET db_transaction == get_transaction(db_txs, transaction_id, user_id)
    IN  IF db_transaction = None THEN [table |-> db_txs, result |-> None]
        ELSE [table |-> DeleteRow(db_txs, db_transaction.id), result |-> db_transaction]

get_categories(db_cats, user_id, skip, limit) == OffsetLimit(OwnedBy(db_cats, user_id), skip, limit)

NewCategory(category, user_id, id) == [id |-> id, name |-> category.name, owner_id |-> user_id]

create_category(db_cats, category, user_id) ==
    LET db_category == NewCategory(category, user_id, NextId(db_cats))
    IN  [table |-> Append(db_cats, db_category), result |-> db_category]

get_category(db_cats, category_id, user_id) ==
    First(SelectSeq(db_cats, LAMBDA c : c.id = category_id /\ c.owner_id = user_id))

\* func.sum over a set of joined rows
RECURSIVE SumAmount(_)
SumAmount(pairs) ==
    IF pairs = {} THEN 0
    ELSE LET p == CHOOSE q \in pairs : TRUE
         IN  p[2].amount + SumAmount(pairs \ {p})

\* Category JOIN Transaction ON Category.id = Transaction.category_id
\* WHERE Transaction.owner_id = user_id AND Transaction.type = 'expense'
JoinedAnyType(db_cats, db_txs, user_id) ==
    {p \in Range(db_cats) \X Range(db_txs) :
        /\ p[1].id = p[2].category_id
        /\ p[2].owner_id = user_id}

Joined(db_cats, db_txs, user_id) ==
    {p \in Range(db_cats) \X Range(db_txs) :
        /\ p[1].id = p[2].category_id
        /\ p[2].owner_id = user_id
        /\ p[2].type = "expense"}

\* GROUP BY Category.name: one (name, total_spending) row per name
get_spending_by_category(db_cats, db_txs, user_id) ==
    LET joined == Joined(db_cats, db_txs, user_id)
    IN  {[name |-> n,
          total_spending |-> SumAmount({p \in joined : p[1].name = n})] :
             n \in {p[1].name : p \in joined}}

\* ------------------------------------------------------------ main.py
\* The 401 of POST /token.
Unauthorized ==
    [status |-> 401, detail |-> "Incorrect email or password",
     headers |-> <<"WWW-Authenticate", "Bearer">>, body |-> None]

UnauthorizedNamingTheEmail ==
    [status |-> 401, detail |-> "Unknown email",
     headers |-> <<"WWW-Authenticate", "Bearer">>, body |-> None]

LoginResponseNamingTheEmail(db_users, username, password) ==
    LET user == get_user_by_email(db_users, username)
    IN  IF user = None THEN UnauthorizedNamingTheEmail
        ELSE IF ~verify_password(password, user.hashed_password) THEN Unauthorized
        ELSE [status |-> 200, detail |-> "", headers |-> <<>>,
              body |-> [access_token |-> create_access_token([sub |-> user.email]),
                        token_type |-> "bearer"]]

\* login_for_access_token: the response to (username, password).
LoginResponse(db_users, username, password) ==
    LET user == get_user_by_email(db_users, username)
    IN  IF user = None \/ ~verify_password(password, user.hashed_password)
        THEN Unauthorized
        ELSE [status |-> 200, detail |-> "", headers |-> <<>>,
              body |-> [access_token |-> create_access_token([sub |-> user.email]),
                        token_type |-> "bearer"]]

\* POST /token
login_for_access_token(username, password) ==
    /\ last' = [op |-> "login_for_access_token", email |-> username,
                password |-> password,
                response |-> LoginResponse(users, username, password)]
    /\ UNCHANGED <<users, categories, transactions, reqs>>

\* POST /users/, up to the email check: 400 when the email has a row, else
\* the password is hashed and the request goes on to the insert.
route_create_user_check(s, user) ==
    /\ reqs[s] = NoReq
    /\ IF get_user_by_email(users, user.email) # None
       THEN /\ last' = [op |-> "create_user", email |-> user.email, status |-> 400,
                        detail |-> "Email already registered"]
            /\ UNCHANGED reqs
       ELSE /\ reqs' = [reqs EXCEPT ![s] =
                          [op |-> "create_user", user |-> user,
                           hashed_password |-> get_password_hash(user.password)]]
            /\ last' = [op |-> "create_user", email |-> user.email, status |-> 0,
                        detail |-> "hashing"]
    /\ UNCHANGED <<users, categories, transactions>>

\* POST /users/, the insert: crud.create_user commits the row, or the unique
\* index on users.email refuses it and the request ends in a server error.
route_create_user_insert(s) ==
    /\ reqs[s].op = "create_user"
    /\ UniqueIndexAllows(users, reqs[s].user.email) => Len(users) < MaxUsers
    /\ IF UniqueIndexAllows(users, reqs[s].user.email)
       THEN /\ users' = create_user(users, reqs[s].user, reqs[s].hashed_password).table
            /\ last' = [op |-> "create_user", email |-> reqs[s].user.email,
                        status |-> 200, detail |-> ""]
       ELSE /\ last' = [op |-> "create_user", email |-> reqs[s].user.email,
                        status |-> 500, detail |-> "IntegrityError"]
            /\ UNCHANGED users
    /\ reqs' = [reqs EXCEPT ![s] = NoReq]
    /\ UNCHANGED <<categories, transactions>>

InitAuth ==
    /\ users = <<>>
    /\ categories = <<>>
    /\ transactions = <<>>
    /\ reqs = [s \in 1..MaxReqs |-> NoReq]
    /\ last = [op |-> "none"]

NextAuth ==
    \/ \E e \in Emails, p \in Passwords : login_for_access_token(e, p)
    \/ \E s \in 1..MaxReqs, e \in Emails, p \in Passwords :
          route_create_user_check(s, [email |-> e, password |-> p])
    \/ \E s \in 1..MaxReqs : route_create_user_insert(s)

SpecAuth == InitAuth /\ [][NextAuth]_vars

\* auth.get_current_user: the bearer token resolves to a row of users.
CurrentUsers == Range(users)

UserRow(user_id) == CHOOSE u \in Range(users) : u.id = user_id

\* The rows a ForeignKey("categories.id") column may reference.
CategoryExists(db_cats, category_id) == \E c \in Range(db_cats) : c.id = category_id

\* Request bodies of POST/PUT /transactions/.  BaseBody and the bodies that
\* differ from it in one field: every field takes two values.
BaseBody == [title |-> "Coffee", amount |-> 1, type |-> "expense", category_id |-> 1]

CrudBodies ==
    {[BaseBody EXCEPT !.title = t] : t \in Titles}
    \cup {[BaseBody EXCEPT !.amount = a] : a \in Amounts}
    \cup {[BaseBody EXCEPT !.type = t] : t \in Types}
    \cup {[BaseBody EXCEPT !.category_id = c] : c \in {1, 2}}

\* A body with an owner_id key of the client's own.
WithOwner(body, o) ==
    [k \in DOMAIN body \cup {"owner_id"} |-> IF k = "owner_id" THEN o ELSE body[k]]

\* Bodies of the report's inputs: each amount, each type and each category
\* reference.
ReportBodies ==
    {[BaseBody EXCEPT !.amount = a] : a \in Amounts}
    \cup {[BaseBody EXCEPT !.type = t] : t \in Types}
    \cup {[BaseBody EXCEPT !.category_id = c] : c \in CategoryIds}

\* Bodies that name an owner of the client's choosing, and two that do not.
OwnerBodies ==
    {[BaseBody EXCEPT !.amount = a] : a \in Amounts}
    \cup {WithOwner(BaseBody, o) : o \in UserIds}

CategoryBodies == {[name |-> "food"]} \cup {WithOwner([name |-> "food"], o) : o \in UserIds}

\* POST /transactions/
route_create_transaction(current_user, body) ==
    /\ LET r == create_transaction(transactions, TransactionCreate(body), current_user.id)
       IN  \/ /\ transactions' = r.table
              /\ last' = [op |-> "create_transaction", user |-> current_user.id,
                          id |-> r.result.id, result |-> "ok",
                          owner_key |-> IF "owner_id" \in DOMAIN body
                                        THEN body.owner_id ELSE 0]
           \* a store that enforces the foreign key refuses the INSERT
           \/ /\ ~CategoryExists(categories, body.category_id)
              /\ last' = [op |-> "create_transaction", user |-> current_user.id,
                          id |-> 0, result |-> "error"]
              /\ UNCHANGED transactions
    /\ UNCHANGED <<users, categories, reqs>>

\* GET /transactions/
read_transactions(current_user, skip, limit) ==
    /\ last' = [op |-> "read_transactions", user |-> current_user.id, id |-> 0,
                result |-> "ok",
                n |-> Len(get_transactions(transactions, current_user.id, skip, limit))]
    /\ UNCHANGED <<users, categories, transactions, reqs>>

\* GET /transactions/{transaction_id}
read_transaction(current_user, transaction_id) ==
    /\ last' = [op |-> "read_transaction", user |-> current_user.id,
                id |-> transaction_id,
                result |-> IF get_transaction(transactions, transaction_id,
                                              current_user.id) = None
                           THEN "none" ELSE "ok"]
    /\ UNCHANGED <<users, categories, transactions, reqs>>

\* PUT /transactions/{transaction_id}, served without interleaving
route_update_transaction(current_user, transaction_id, body) ==
    /\ LET r == update_transaction(transactions, transaction_id,
                                   TransactionCreate(body), current_user.id)
       IN  \/ /\ transactions' = r.table
              /\ last' = [op |-> "update_transaction", user |-> current_user.id,
                          id |-> transaction_id,
                          result |-> IF r.result = None THEN "none" ELSE "ok"]
           \* a store that enforces the foreign key refuses the UPDATE
           \/ /\ r.result # None
              /\ ~CategoryExists(categories, r.result.category_id)
              /\ last' = [op |-> "update_transaction", user |-> current_user.id,
                          id |-> transaction_id, result |-> "error"]
              /\ UNCHANGED transactions
    /\ UNCHANGED <<users, categories, reqs>>

\* DELETE /transactions/{transaction_id}
route_delete_transaction(current_user, transaction_id) ==
    /\ LET r == delete_transaction(transactions, transaction_id, current_user.id)
       IN  /\ transactions' = r.table
           /\ last' = [op |-> "delete_transaction", user |-> current_user.id,
                       id |-> transaction_id,
                       result |-> IF r.result = None THEN "none" ELSE "ok"]
    /\ UNCHANGED <<users, categories, reqs>>

\* POST /categories/
route_create_category(current_user, body) ==
    /\ LET r == create_category(categories, CategoryCreate(body), current_user.id)
       IN  /\ categories' = r.table
           /\ last' = [op |-> "create_category", user |-> current_user.id,
                       id |-> r.result.id, result |-> "ok"]
    /\ UNCHANGED <<users, transactions, reqs>>

\* GET /categories/
read_categories(current_user, skip, limit) ==
    /\ last' = [op |-> "read_categories", user |-> current_user.id, id |-> 0,
                result |-> "ok",
                n |-> Len(get_categories(categories, current_user.id, skip, limit))]
    /\ UNCHANGED <<users, categories, transactions, reqs>>

\* GET /reports/spending-by-category
get_spending_report(current_user) ==
    /\ last' = [op |-> "get_spending_report", user |-> current_user.id, id |-> 0,
                result |-> "ok",
                n |-> Cardinality(get_spending_by_category(categories, transactions,
                                                           current_user.id))]
    /\ UNCHANGED <<users, categories, transactions, reqs>>

\* PUT /transactions/{transaction_id} of a request served beside others, up
\* to the end of the setattr loop: the row is loaded into the request's own
\* session and the body's fields are assigned to the loaded object.
update_load(s, current_user, transaction_id, body) ==
    /\ reqs[s] = NoReq
    /\ LET db_transaction == get_transaction(transactions, transaction_id, current_user.id)
       IN  IF db_transaction = None
           THEN /\ last' = [op |-> "update_transaction", user |-> current_user.id,
                            id |-> transaction_id, result |-> "none"]
                /\ UNCHANGED reqs
           ELSE /\ reqs' = [reqs EXCEPT ![s] =
                              [op |-> "update_transaction", user |-> current_user.id,
                               transaction |-> TransactionCreate(body),
                               loaded |-> db_transaction,
                               assigned |-> Assigned(db_transaction, TransactionCreate(body))]]
                /\ last' = [op |-> "update_transaction", user |-> current_user.id,
                            id |-> transaction_id, result |-> "loaded"]
    /\ UNCHANGED <<users, categories, transactions>>

\* The same request's db.commit() and db.refresh(): the flush, or an error
\* when the loaded row is gone (the UPDATE matches no row, the refresh finds
\* none).
update_commit(s) ==
    /\ reqs[s].op = "update_transaction"
    /\ IF \E t \in Range(transactions) : t.id = reqs[s].loaded.id
       THEN /\ transactions' = Flush(transactions, reqs[s].loaded, reqs[s].assigned)
            /\ last' = [op |-> "update_transaction", user |-> reqs[s].user,
                        id |-> reqs[s].loaded.id, result |-> "ok"]
       ELSE /\ last' = [op |-> "update_transaction", user |-> reqs[s].user,
                        id |-> reqs[s].loaded.id, result |-> "error"]
            /\ UNCHANGED transactions
    /\ reqs' = [reqs EXCEPT ![s] = NoReq]
    /\ UNCHANGED <<users, categories>>

\* Two users registered through POST /users/.
RegisteredUsers ==
    <<[id |-> 1, email |-> "a@x", hashed_password |-> get_password_hash("p")],
      [id |-> 2, email |-> "b@x", hashed_password |-> get_password_hash("q")]>>

\* Transactions listed, read, replaced and deleted; one category exists.
InitCrud ==
    /\ users = RegisteredUsers
    /\ categories = <<[id |-> 1, name |-> "food", owner_id |-> 1]>>
    /\ transactions = <<>>
    /\ reqs = [s \in 1..MaxReqs |-> NoReq]
    /\ last = [op |-> "none"]

NextCrud ==
    \/ /\ NextId(transactions) <= MaxTx
       /\ \E u \in CurrentUsers, b \in CrudBodies : route_create_transaction(u, b)
    \/ \E u \in CurrentUsers, skip \in 0..MaxTx, limit \in 0..MaxTx :
          read_transactions(u, skip, limit)
    \/ \E u \in CurrentUsers, id \in 1..MaxTx : read_transaction(u, id)
    \/ \E u \in CurrentUsers, id \in 1..MaxTx, b \in CrudBodies :
          route_update_transaction(u, id, b)
    \/ \E u \in CurrentUsers, id \in 1..MaxTx : route_delete_transaction(u, id)

SpecCrud == InitCrud /\ [][NextCrud]_vars

\* Categories and transactions created, replaced and deleted, and the report
\* read.
InitReport ==
    /\ users = RegisteredUsers
    /\ categories = <<>>
    /\ transactions = <<>>
    /\ reqs = [s \in 1..MaxReqs |-> NoReq]
    /\ last = [op |-> "none"]

NextReport ==
    \/ /\ NextId(categories) <= MaxCat
       /\ \E u \in CurrentUsers, n \in Names : route_create_category(u, [name |-> n])
    \/ /\ NextId(transactions) <= MaxSpend
       /\ \E u \in CurrentUsers, b \in ReportBodies : route_create_transaction(u, b)
    \/ \E u \in CurrentUsers, id \in 1..MaxSpend, b \in ReportBodies :
          route_update_transaction(u, id, b)
    \/ \E u \in CurrentUsers, id \in 1..MaxSpend : route_delete_transaction(u, id)
    \/ \E u \in CurrentUsers : get_spending_report(u)

SpecReport == InitReport /\ [][NextReport]_vars

\* Rows created from bodies that name an owner, and replaced.
NextOwner ==
    \/ /\ NextId(transactions) <= MaxTx
       /\ \E u \in CurrentUsers, b \in OwnerBodies : route_create_transaction(u, b)
    \/ \E u \in CurrentUsers, id \in 1..MaxTx, b \in OwnerBodies :
          route_update_transaction(u, id, b)
    \/ \E u \in CurrentUsers, id \in 1..MaxTx : route_delete_transaction(u, id)
    \/ /\ NextId(categories) <= MaxCat
       /\ \E u \in CurrentUsers, b \in CategoryBodies : route_create_category(u, b)
    \/ \E u \in CurrentUsers, skip \in 0..MaxCat, limit \in 0..MaxCat :
          read_categories(u, skip, limit)

SpecOwner == InitReport /\ [][NextOwner]_vars

\* Requests on one transaction served side by side, each in its own session.
ConcBodies ==
    {[BaseBody EXCEPT !.title = t] : t \in Titles}
    \cup {[BaseBody EXCEPT !.amount = a] : a \in Amounts}

InitConc ==
    /\ users = RegisteredUsers
    /\ categories = <<[id |-> 1, name |-> "food", owner_id |-> 1]>>
    /\ transactions \in {<<NewTransaction(b, 1, 1)>> : b \in ConcBodies}
    /\ reqs = [s \in 1..MaxReqs |-> NoReq]
    /\ last = [op |-> "none"]

NextConc ==
    \/ \E s \in 1..MaxReqs, u \in CurrentUsers, b \in ConcBodies : update_load(s, u, 1, b)
    \/ \E s \in 1..MaxReqs : update_commit(s)
    \/ \E u \in CurrentUsers : route_delete_transaction(u, 1)

SpecConc == InitConc /\ [][NextConc]_vars

\* ------------------------------------------------------------- claims
Expenses(user_id) ==
    {t \in Range(transactions) : t.owner_id = user_id /\ t.type = "expense"}

Report(user_id) == get_spending_by_category(categories, transactions, user_id)

ReportNames(user_id) == {r.name : r \in Report(user_id)}

RECURSIVE SumTotal(_)
SumTotal(rows) ==
    IF rows = {} THEN 0
    ELSE LET r == CHOOSE q \in rows : TRUE
         IN  r.total_spending + SumTotal(rows \ {r})

\* C1: an update, read or delete of a transaction issued with the id of a
\* user who does not own it returns None and leaves the table as it was.
C1_CrossUserNotFound ==
    [][\A t \in Range(transactions) :
          (/\ last'.op \in {"read_transaction", "update_transaction", "delete_transaction"}
           /\ last'.id = t.id
           /\ last'.user # t.owner_id)
          => (last'.result = "none" /\ transactions' = transactions)]_vars

C1_Witness ==
    /\ last.op = "update_transaction"
    /\ last.result = "none"
    /\ \E t \in Range(transactions) : t.id = last.id /\ t.owner_id # last.user

UsersEmailUnique ==
    \A i, j \in DOMAIN users : users[i].email = users[j].email => i = j

\* C2: no two user rows share an email, whatever the interleaving of the
\* register requests, and a register request that finds a row with its
\* email answers 400 and adds no row.
C2_EmailTaken ==
    /\ []UsersEmailUnique
    /\ [][\A s \in 1..MaxReqs, e \in Emails, p \in Passwords :
            (/\ last'.op = "create_user"
             /\ \E u \in Range(users) : u.email = e
             /\ route_create_user_check(s, [email |-> e, password |-> p]))
            => (/\ last'.status = 400
                /\ last'.detail = "Email already registered"
                /\ users' = users
                /\ reqs' = reqs)]_vars

C2_Witness ==
    /\ last.op = "create_user"
    /\ last.status = 400
    /\ \E u \in Range(users) : u.email = last.email

\* C3: for every user the totals of the report add up to the amounts of
\* that user's expense transactions, each expense lying in exactly one row.
C3_ExpenseCountedOnce ==
    \A u \in Range(users) :
       /\ SumTotal(Report(u.id)) = SumAmount({<<0, t>> : t \in Expenses(u.id)})
       /\ \A t \in Expenses(u.id) :
             Cardinality({r \in Report(u.id) :
                            \E c \in Range(categories) :
                               c.id = t.category_id /\ c.name = r.name}) = 1

\* C4: the owner reads back what was created; a replacement that changes
\* only the amount changes only the amount; a deleted transaction is not
\* found.
C4_RoundTrip ==
    [][/\ (last'.op = "create_transaction" /\ last'.result = "ok")
          => \A b \in CrudBodies :
                route_create_transaction(UserRow(last'.user), b)
                => LET got == get_transaction(transactions', last'.id, last'.user)
                   IN  /\ got # None
                       /\ got.title = b.title /\ got.amount = b.amount
                       /\ got.type = b.type /\ got.category_id = b.category_id
       /\ (last'.op = "update_transaction" /\ last'.result = "ok")
          => \A b \in CrudBodies :
                LET old == get_transaction(transactions, last'.id, last'.user)
                IN  (/\ route_update_transaction(UserRow(last'.user), last'.id, b)
                     /\ b.title = old.title /\ b.type = old.type
                     /\ b.category_id = old.category_id /\ b.amount # old.amount)
                    => get_transaction(transactions', last'.id, last'.user)
                         = [old EXCEPT !.amount = b.amount]
       /\ (last'.op = "delete_transaction" /\ last'.result = "ok")
          => (route_delete_transaction(UserRow(last'.user), last'.id)
              => get_transaction(transactions', last'.id, last'.user) = None)]_vars

C4_Witness ==
    /\ last.op = "update_transaction"
    /\ last.result = "ok"
    /\ \E t \in Range(transactions) :
          t.id = last.id /\ t.amount = 2 /\ t.title = "Coffee"

\* C5: a page holds min(limit, max(0, n - skip)) transactions, all of the
\* user, and the pages (L, L) and (0, L) share none.
C5_Pagination ==
    \A u \in Range(users), skip \in 0..(MaxTx + 1), limit \in 0..(MaxTx + 1) :
       LET n == Cardinality({t \in Range(transactions) : t.owner_id = u.id})
           page == get_transactions(transactions, u.id, skip, limit)
       IN  /\ Len(page) = Min(limit, Max(0, n - skip))
           /\ \A i \in DOMAIN page : page[i].owner_id = u.id
           /\ Range(get_transactions(transactions, u.id, limit, limit))
                \cap Range(get_transactions(transactions, u.id, 0, limit)) = {}

C5_Witness ==
    /\ last.op = "read_transactions"
    /\ last.n = 1
    /\ Cardinality({t \in Range(transactions) : t.owner_id = last.user}) >= 2

\* C6: a created transaction or category is owned by the caller whatever
\* the body says, and no step changes the owner or the id of a row.
C6_OwnerStamped ==
    [][/\ (last'.op = "create_transaction" /\ last'.result = "ok")
          => \A b \in OwnerBodies :
                route_create_transaction(UserRow(last'.user), b)
                => \E t \in Range(transactions') :
                      /\ t.id = last'.id
                      /\ t.owner_id = last'.user
                      /\ t.id \notin {r.id : r \in Range(transactions)}
       /\ last'.op = "create_category"
          => \A b \in CategoryBodies :
                route_create_category(UserRow(last'.user), b)
                => \E c \in Range(categories') :
                      /\ c.id = last'.id
                      /\ c.owner_id = last'.user
                      /\ c.id \notin {r.id : r \in Range(categories)}
       /\ \A t \in Range(transactions), t2 \in Range(transactions') :
            t2.id = t.id => t2.owner_id = t.owner_id
       /\ \A c \in Range(categories), c2 \in Range(categories') :
            c2.id = c.id => c2.owner_id = c.owner_id
       /\ Len(transactions') = Len(transactions)
            => \A i \in DOMAIN transactions : transactions'[i].id = transactions[i].id
       /\ Len(categories') = Len(categories)
            => \A i \in DOMAIN categories : categories'[i].id = categories[i].id]_vars

C6_Witness ==
    /\ last.op = "create_transaction"
    /\ last.result = "ok"
    /\ last.owner_key \notin {0, last.user}
    /\ \E t \in Range(transactions) : t.id = last.id /\ t.owner_id = last.user

\* C7 as stated: the name of a category in which the user has no expense is
\* not in the user's report.
C7_AbsentByName ==
    \A u \in Range(users), c \in Range(categories) :
       (~\E t \in Expenses(u.id) : t.category_id = c.id)
       => c.name \notin ReportNames(u.id)

\* C7 as amended: the name of a category in which the user has no expense is
\* in the user's report only when another category of the same name holds an
\* expense of that user.
C7_AbsentUnlessSameName ==
    \A u \in Range(users), c \in Range(categories) :
       (~\E t \in Expenses(u.id) : t.category_id = c.id)
       => (c.name \in ReportNames(u.id)
           => \E c2 \in Range(categories) :
                 /\ c2.id # c.id
                 /\ c2.name = c.name
                 /\ \E t \in Expenses(u.id) : t.category_id = c2.id)

C7_Witness ==
    /\ last.op = "get_spending_report"
    /\ \E c \in Range(categories) :
          /\ ~\E t \in Expenses(last.user) : t.category_id = c.id
          /\ c.name \in ReportNames(last.user)

\* C8: POST /token answers an unknown email and a wrong password for a known
\* email with one and the same response, a 401 without a token, and changes
\* nothing.
C8_SameOutcome ==
    /\ [](\A e1, e2 \in Emails, p1, p2 \in Passwords :
            LET u1 == get_user_by_email(users, e1)
                u2 == get_user_by_email(users, e2)
            IN  (u1 = None /\ u2 # None /\ ~verify_password(p2, u2.hashed_password))
                => /\ LoginResponse(users, e1, p1) = LoginResponse(users, e2, p2)
                   /\ LoginResponse(users, e1, p1).status = 401
                   /\ LoginResponse(users, e1, p1).body = None)
    /\ [][last'.op = "login_for_access_token"
            => UNCHANGED <<users, categories, transactions, reqs>>]_vars

C8_Witness ==
    /\ last.op = "login_for_access_token"
    /\ last.response.status = 401
    /\ get_user_by_email(users, last.email) # None
    /\ \E e \in Emails : get_user_by_email(users, e) = None

\* C9: the commit of an update request leaves the row with exactly the
\* fields of that request, or leaves the table unchanged.
C9_LastWriterWins ==
    [][\A s \in 1..MaxReqs :
          (reqs[s].op = "update_transaction" /\ reqs'[s] = NoReq)
          => \/ transactions' = transactions
             \/ \E t \in Range(transactions') :
                   /\ t.id = reqs[s].loaded.id
                   /\ TransactionCreate(t) = reqs[s].transaction]_vars

\* C10: every name in a user's report is the name of a category that user
\* owns.
C10_OwnCategoryNames ==
    \A u \in Range(users) :
       \A n \in ReportNames(u.id) :
          \E c \in Range(categories) : c.name = n /\ c.owner_id = u.id

====
